---- MODULE Spec2Model ----
(***************************************************************************)
(* Task Resource Service.                                                  *)
(*                                                                         *)
(* The five handlers of backend/controllers/taskController.js (getTasks,   *)
(* getTask, createTask, updateTask, deleteTask) over the Task collection   *)
(* described in backend/models/task.md.  Each handler hands req.params.id  *)
(* and req.body, unfiltered, to one Mongoose model call and maps the       *)
(* outcome to a status code and a {success, data | error} body.            *)
(*                                                                         *)
(* A handler is one action: its single store round trip is atomic in the   *)
(* database, and the clock it reads (Date.now, millisecond resolution) is  *)
(* the variable clock, advanced by Tick.  req and resp hold the exchange   *)
(* the handler served until Settle ends it.  storeError is a handler whose *)
(* model call throws because the store cannot be reached; peer is the call *)
(* of a second client, which the store serves before or after req.         *)
(*                                                                         *)
(* Request bodies are JSON documents over the schema paths (_id, title,    *)
(* description, status, priority, dueDate, createdAt, updatedAt), or, for  *)
(* POST, a JSON array of such documents; a path is absent, null or a       *)
(* value.  Update operators ($set, $unset, ...) in a body are not          *)
(* modelled.                                                               *)
(*                                                                         *)
(* The React client (frontend/src/pages/TaskList.js, components/           *)
(* TaskForm.js, services/api.js) is the variables view and form: the state *)
(* of each page and its calls in flight.  An async function of a page is   *)
(* two actions, one up to its await and one from the arrival of the        *)
(* response; the server serves the calls in flight in any order and their  *)
(* responses arrive in any order.                                          *)
(***************************************************************************)
EXTENDS Integers, Sequences, FiniteSets, TLC

VARIABLES
  store,    \* the Task collection: well-formed id -> stored document
  deleted,  \* the ids that were stored and then deleted
  clock,    \* the server's wall clock, in milliseconds
  req,      \* the request being served, NoReq between two requests
  resp,     \* the response to req
  origin,   \* the task created last and the candidate it was created from,
            \* until that task is updated or deleted
  peer,     \* the call of a second client, in flight beside req
  view,     \* the TaskList page of the React client
  form      \* the TaskForm page of the React client

vars == <<store, deleted, clock, req, resp, origin, peer, view, form>>

----------------------------------------------------------------------------
(* Bounds of the model. *)

MaxOid == 2      \* well-formed ids are 1..MaxOid
MaxClock == 1    \* the clock runs 0..MaxClock

(* Schema constants. *)

TitleMax == 100
DescMax == 500

----------------------------------------------------------------------------
(* JSON values. *)

Absent == [k |-> "absent"]
Null == [k |-> "null"]

\* A string of pre spaces, n characters ch (a text that neither starts nor
\* ends with a space), post spaces.
Str(pre, ch, n, post) == [k |-> "str", pre |-> pre, ch |-> ch, n |-> n, post |-> post]
EmptyStr == Str(0, "", 0, 0)
StrLen(s) == s.pre + s.n + s.post

\* An enumerated word such as "pending".
Word(w) == [k |-> "word", w |-> w]

\* "YYYY-MM-DD", a full ISO-8601 string, and the Date both denote.
DateStr(d) == [k |-> "date", day |-> d]
IsoStr(d, ms) == [k |-> "iso", day |-> d, ms |-> ms]
Instant(d, ms) == [k |-> "instant", day |-> d, ms |-> ms]

\* A timestamp string denoting clock instant t, and an ObjectId string.
TimeStr(t) == [k |-> "time", t |-> t]
OidStr(i) == [k |-> "oid", id |-> i]

OIDs == 1..MaxOid
BadId == 0       \* an id string that is no ObjectId, e.g. "abc"

StatusEnum == {"pending", "in-progress", "completed"}
PriorityEnum == {"low", "medium", "high"}

Fields == {"_id", "title", "description", "status", "priority", "dueDate",
           "createdAt", "updatedAt"}
ContentFields == {"title", "description", "status", "priority", "dueDate"}

EmptyBody == [f \in Fields |-> Absent]
Named(b) == {f \in Fields : b[f] # Absent}

----------------------------------------------------------------------------
(* The Task schema (backend/models/task.md): casting, setters, defaults    *)
(* and validators.                                                         *)

CastError == [k |-> "casterror"]

\* trim: true -- the setter removes leading and trailing white space.
Trim(s) == IF s.n = 0 THEN EmptyStr ELSE [s EXCEPT !.pre = 0, !.post = 0]

CastTextRaw(v) == v

\* title, description: String, trim: true.
CastText(v) == IF v.k = "str" THEN Trim(v) ELSE v

\* status, priority: String with enum; no setter.
CastEnumStr(v) == v

\* dueDate: Date. '' casts to null, a date or ISO string to the instant it
\* denotes, any other string fails to cast.
CastDate(v) ==
  CASE v.k \in {"absent", "null"} -> v
    [] v.k = "date" -> Instant(v.day, 0)
    [] v.k = "iso" -> Instant(v.day, v.ms)
    [] v = EmptyStr -> Null
    [] OTHER -> CastError

\* _id: ObjectId.
CastOid(v) ==
  CASE v.k = "absent" -> v
    [] v.k = "oid" /\ v.id \in OIDs -> v
    [] OTHER -> CastError

\* createdAt, updatedAt: Date (timestamps: true).
CastTime(v) == IF v.k \in {"absent", "null", "time"} THEN v ELSE CastError

CastBody(b) ==
  [f \in Fields |->
     CASE f = "_id" -> CastOid(b[f])
       [] f \in {"title", "description"} -> CastText(b[f])
       [] f \in {"status", "priority"} -> CastEnumStr(b[f])
       [] f = "dueDate" -> CastDate(b[f])
       [] OTHER -> CastTime(b[f])]

HasCastError(c) == \E f \in Fields : c[f] = CastError

\* required: true on a String path: a non-empty string.
RequiredOk(v) == v.k = "str" /\ StrLen(v) > 0

MaxLenBelow(v, m) == v.k = "str" => StrLen(v) < m

\* maxlength: m. Validators other than required are skipped for undefined,
\* and maxlength accepts null.
MaxLenOk(v, m) == v.k = "str" => StrLen(v) <= m

\* enum: E. The enum validator accepts null and undefined.
EnumOk(v, E) == v.k = "word" => v.w \in E

DefaultStatusNone(v) == v

\* Defaults apply to undefined paths only: status 'pending', priority 'medium'.
DefaultStatus(v) == IF v = Absent THEN Word("pending") ELSE v
DefaultPriority(v) == IF v = Absent THEN Word("medium") ELSE v

\* Document validation (Model.create): every schema path of the document.
ValidDoc(d) ==
  /\ RequiredOk(d.title)
  /\ MaxLenOk(d.title, TitleMax)
  /\ MaxLenOk(d.description, DescMax)
  /\ EnumOk(d.status, StatusEnum)
  /\ EnumOk(d.priority, PriorityEnum)

\* Update validators (runValidators: true): only the paths the update names.
ValidUpdateOff(c) == TRUE

ValidUpdate(c) ==
  /\ c.title # Absent => RequiredOk(c.title) /\ MaxLenOk(c.title, TitleMax)
  /\ MaxLenOk(c.description, DescMax)
  /\ EnumOk(c.status, StatusEnum)
  /\ EnumOk(c.priority, PriorityEnum)

\* timestamps: true on save of a new document: createdAt is set to now unless
\* the document already carries one; updatedAt is set to createdAt.
NewCreatedAt(c, now) == IF c.createdAt.k = "time" THEN c.createdAt.t ELSE now

\* new Task(body): the document Model.create builds from a cast body c.
NewDoc(c, now) ==
  [_id |-> c._id,
   title |-> c.title,
   description |-> c.description,
   status |-> DefaultStatus(c.status),
   priority |-> DefaultPriority(c.priority),
   dueDate |-> c.dueDate,
   createdAt |-> NewCreatedAt(c, now),
   updatedAt |-> NewCreatedAt(c, now)]

\* findByIdAndUpdate's $set: the named content paths are replaced, createdAt
\* is dropped from the update and updatedAt is set to now.
SetPathOverwrite(old, new) == new

SetPath(old, new) == IF new # Absent THEN new ELSE old

ApplyUpdateUnstamped(d, c, now) ==
  [d EXCEPT !.title = SetPath(@, c.title),
            !.description = SetPath(@, c.description),
            !.status = SetPath(@, c.status),
            !.priority = SetPath(@, c.priority),
            !.dueDate = SetPath(@, c.dueDate),
            !.updatedAt = IF Named(c) = {} THEN @ ELSE now]

ApplyUpdateCreatedAt(d, c, now) ==
  [d EXCEPT !.title = SetPath(@, c.title),
            !.description = SetPath(@, c.description),
            !.status = SetPath(@, c.status),
            !.priority = SetPath(@, c.priority),
            !.dueDate = SetPath(@, c.dueDate),
            !.createdAt = IF c.createdAt.k = "time" THEN c.createdAt.t ELSE @,
            !.updatedAt = now]

ApplyUpdateReplace(d, c, now) ==
  [d EXCEPT !.title = c.title,
            !.description = c.description,
            !.status = DefaultStatus(c.status),
            !.priority = DefaultPriority(c.priority),
            !.dueDate = c.dueDate,
            !.updatedAt = now]

ApplyUpdate(d, c, now) ==
  [d EXCEPT !.title = SetPath(@, c.title),
            !.description = SetPath(@, c.description),
            !.status = SetPath(@, c.status),
            !.priority = SetPath(@, c.priority),
            !.dueDate = SetPath(@, c.dueDate),
            !.updatedAt = now]

\* res.json(task): a Date is written as its ISO string.
ToJSON(d) ==
  [d EXCEPT !.dueDate = IF @.k = "instant" THEN IsoStr(@.day, @.ms) ELSE @]

----------------------------------------------------------------------------
(* The store. *)

\* A generated ObjectId: one that was never stored before.
NewOid(us) == CHOOSE i \in OIDs \ us : \A j \in OIDs \ us : i <= j

Put(st, id, d) == [i \in DOMAIN st \cup {id} |-> IF i = id THEN d ELSE st[i]]
Drop(st, id) == [i \in DOMAIN st \ {id} |-> st[i]]

\* One document of Model.create(body): cast to the schema, defaults and
\* timestamps applied, then validated.
Prepared(b, now) ==
  LET c == CastBody(b)
  IN IF HasCastError(c) THEN [ok |-> FALSE, error |-> "CastError"]
     ELSE IF ~ValidDoc(NewDoc(c, now))
       THEN [ok |-> FALSE, error |-> "ValidationError"]
       ELSE [ok |-> TRUE, doc |-> NewDoc(c, now)]

Unsaved(msg) == [ok |-> FALSE, id |-> BadId, error |-> msg]

\* doc.save() of one prepared document: an invalid one is not sent to the
\* store; a valid one is inserted under the body's _id, or under a generated
\* one, unless that _id is already stored (E11000 duplicate key).
SaveOne(p, st, us) ==
  IF ~p.ok THEN [store |-> st, used |-> us, res |-> Unsaved(p.error)]
  ELSE IF p.doc._id = Absent /\ OIDs \ us = {}
    THEN [store |-> st, used |-> us, res |-> Unsaved("exhausted")]
  ELSE
    LET id == IF p.doc._id = Absent THEN NewOid(us) ELSE p.doc._id.id
    IN IF id \in DOMAIN st
         THEN [store |-> st, used |-> us, res |-> Unsaved("E11000")]
         ELSE [store |-> Put(st, id, [p.doc EXCEPT !._id = id]),
               used |-> us \cup {id},
               res |-> [ok |-> TRUE, id |-> id, error |-> ""]]

\* Model.create saves every document of the body, each on its own: a
\* document that fails does not undo the others.
RECURSIVE SaveAll(_, _, _, _, _)
SaveAll(ps, i, st, us, out) ==
  IF i > Len(ps) THEN [store |-> st, used |-> us, out |-> out]
  ELSE LET r == SaveOne(ps[i], st, us)
       IN SaveAll(ps, i + 1, r.store, r.used, Append(out, r.res))

SortedByUpdatedAt(st) ==
  {s \in [1..Cardinality(DOMAIN st) -> DOMAIN st] :
     /\ \A i, j \in DOMAIN s : i # j => s[i] # s[j]
     /\ \A i, j \in DOMAIN s : i < j => st[s[i]].updatedAt >= st[s[j]].updatedAt}

SortedIdsLimited(st) ==
  {s \in [1..(IF st = << >> THEN 0 ELSE 1) -> DOMAIN st] : TRUE}

\* find().sort({createdAt: -1}): the stored ids, newest createdAt first; the
\* order among equal createdAt is the store's choice.
SortedIds(st) ==
  {s \in [1..Cardinality(DOMAIN st) -> DOMAIN st] :
     /\ \A i, j \in DOMAIN s : i # j => s[i] # s[j]
     /\ \A i, j \in DOMAIN s : i < j => st[s[i]].createdAt >= st[s[j]].createdAt}

----------------------------------------------------------------------------
(* Requests and responses. *)

NoReq == [op |-> "none"]
NoResp == [op |-> "none"]

\* res.status(code).json({success: true, data})
Reply(op, code, data) == [op |-> op, status |-> code, success |-> TRUE, data |-> data]

FailMessage(op, code, msg) ==
  [op |-> op, status |-> code, success |-> FALSE, message |-> msg]

FailUnset(op, code, msg) ==
  [op |-> op, status |-> 200, success |-> FALSE, error |-> msg]

\* res.status(code).json({success: false, error})
Fail(op, code, msg) == [op |-> op, status |-> code, success |-> FALSE, error |-> msg]

Responded(r) == r.op # "none"

\* The messages of the errors the store raises when it cannot be reached.
StoreErrors == {"connect ECONNREFUSED 127.0.0.1:27017", "buffering timed out"}

\* The status of a handler's catch block.
CatchStatus(op) == IF op \in {"create", "update"} THEN 400 ELSE 500

\* catch (error): res.status(...).json({success: false, error: error.message})
Caught(op, msg) == Fail(op, CatchStatus(op), msg)
Failed(r) == Responded(r) /\ ~r.success

----------------------------------------------------------------------------
(* The handlers of controllers/taskController.js. *)

Idle == req = NoReq

\* Every id that was ever stored: a generated ObjectId is none of them.
Used == DOMAIN store \cup deleted

NoOrigin == [id |-> BadId]

\* The call of a second client: its request, the response once the store has
\* served it, the ids stored when it was issued, and whether it was served
\* after the first client's request.
NoCall == [req |-> NoReq, resp |-> NoResp, had |-> {}, after |-> FALSE]
Content(b) == [f \in ContentFields |-> b[f]]

\* A call of the client's API layer (services/api.js): the request and, once
\* the server has answered, the response.  kept records that the call saves
\* a form that was loaded from the stored task and not edited since.
Call(op, id, body) ==
  [op |-> op, id |-> id, body |-> body, resp |-> NoResp, kept |-> FALSE]

\* The call failed without a response (axios: err.response is undefined).
Lost(op) == [op |-> op, status |-> 0, success |-> FALSE, error |-> ""]

\* window.confirm of handleDelete: the task asked about and the answer.
NoAsk == [id |-> BadId, ok |-> FALSE]

\* TaskList as first rendered: tasks [], loading true, error null (written
\* ""); no alert shown, no confirmation asked, no call in flight.
ListStart ==
  [mounted |-> FALSE, tasks |-> << >>, loading |-> TRUE, error |-> "",
   alert |-> "", asked |-> NoAsk, calls |-> << >>]

\* useState of formData: the inputs of an empty form.
BlankForm ==
  [title |-> EmptyStr, description |-> EmptyStr, status |-> Word("pending"),
   priority |-> Word("medium"), dueDate |-> EmptyStr]

\* TaskForm before a route renders it; once rendered: loading false, error
\* null (written ""), not yet loaded from a task, no input edited, still on
\* the form (left: navigate('/') was called).
FormStart ==
  [mode |-> "none", id |-> BadId, formData |-> BlankForm, loading |-> FALSE,
   error |-> "", loaded |-> FALSE, touched |-> FALSE, left |-> FALSE,
   calls |-> << >>]

Init ==
  /\ store = << >>
  /\ deleted = {}
  /\ clock = 0
  /\ req = NoReq
  /\ resp = NoResp
  /\ origin = NoOrigin
  /\ peer = NoCall
  /\ view = ListStart
  /\ form = FormStart

\* Date.now() moves on by a millisecond.
Tick ==
  /\ Idle
  /\ clock < MaxClock
  /\ clock' = clock + 1
  /\ UNCHANGED <<store, deleted, req, resp, origin, peer, view, form>>

\* The response is delivered; the next request can be served.
Settle ==
  /\ ~Idle
  /\ req' = NoReq
  /\ resp' = NoResp
  /\ UNCHANGED <<store, deleted, clock, origin, peer, view, form>>

\* A POST body of one document, and one of an array of documents.
One(b) == [array |-> FALSE, docs |-> <<b>>]
Many(bs) == [array |-> TRUE, docs |-> bs]

\* Task.find().sort({createdAt: -1}) and the answers the handler can give:
\* one for every order the store may return.
Listing(st) ==
  {[op |-> "list", status |-> 200, success |-> TRUE,
    count |-> Len(s),
    data |-> [i \in DOMAIN s |-> ToJSON(st[s[i]])]] : s \in SortedIds(st)}

\* Task.findById(id) and the answer the handler gives.
Getting(st, id) ==
  IF id = BadId THEN Fail("get", 500, "CastError")
  ELSE IF id \notin DOMAIN st THEN Fail("get", 404, "Task not found")
  ELSE Reply("get", 200, ToJSON(st[id]))

\* Task.create(body) and the answer the handler gives; last is the document
\* of the body that was saved last (0: none was saved).
Creating(st, us, body, now) ==
  LET ps == [i \in DOMAIN body.docs |-> Prepared(body.docs[i], now)]
      r == SaveAll(ps, 1, st, us, << >>)
      errs == {i \in DOMAIN ps : ~r.out[i].ok}
      first == CHOOSE i \in errs : \A j \in errs : i <= j
      saved == {i \in DOMAIN ps : r.out[i].ok}
      last == CHOOSE i \in saved : \A j \in saved : j <= i
      made == [i \in DOMAIN ps |-> ToJSON(r.store[r.out[i].id])]
  IN [able |-> \A i \in DOMAIN ps : r.out[i].error # "exhausted",
      store |-> r.store,
      last |-> IF saved = {} THEN 0 ELSE last,
      id |-> IF saved = {} THEN BadId ELSE r.out[last].id,
      resp |-> IF errs # {} THEN Fail("create", 400, r.out[first].error)
               ELSE Reply("create", 201, IF body.array THEN made ELSE made[1])]

\* GET /api/tasks
getTasks ==
  /\ Idle
  /\ req' = [op |-> "list"]
  /\ resp' \in Listing(store)
  /\ UNCHANGED <<store, deleted, clock, origin, peer, view, form>>

\* GET /api/tasks/:id
getTask(id) ==
  /\ Idle
  /\ req' = [op |-> "get", id |-> id]
  /\ resp' = Getting(store, id)
  /\ UNCHANGED <<store, deleted, clock, origin, peer, view, form>>

\* POST /api/tasks; body = [array |-> whether the body is a JSON array,
\* docs |-> its documents (the body itself when it is one document)]
createTask(body) ==
  LET r == Creating(store, Used, body, clock)
  IN /\ Idle
     /\ r.able
     /\ store' = r.store
     /\ req' = [op |-> "create", body |-> body]
     /\ resp' = r.resp
     /\ origin' = IF r.last = 0 THEN origin
                  ELSE [id |-> r.id, body |-> Content(body.docs[r.last])]
     /\ UNCHANGED <<deleted, clock, peer, view, form>>

UpdatingFoundFirst(st, id, b, now) ==
  LET c == CastBody(b)
      hit == id \in DOMAIN st
      fine == ~HasCastError(c) /\ ValidUpdate(c)
      d == ApplyUpdate(st[id], c, now)
  IN [done |-> hit /\ fine,
      store |-> IF hit /\ fine THEN [st EXCEPT ![id] = d] ELSE st,
      resp |-> IF id = BadId THEN Fail("update", 400, "CastError")
               ELSE IF ~hit THEN Fail("update", 404, "Task not found")
               ELSE IF HasCastError(c) THEN Fail("update", 400, "CastError")
               ELSE IF ~ValidUpdate(c) THEN Fail("update", 400, "ValidationError")
               ELSE Reply("update", 200, ToJSON(d))]

UpdatingUpsert(st, id, b, now) ==
  LET c == CastBody(b)
      fine == ~(id = BadId \/ HasCastError(c) \/ ~ValidUpdate(c))
      base == IF id \in DOMAIN st THEN st[id] ELSE [NewDoc(c, now) EXCEPT !._id = id]
      d == ApplyUpdate(base, c, now)
  IN [done |-> fine,
      store |-> IF fine THEN Put(st, id, d) ELSE st,
      resp |-> IF id = BadId \/ HasCastError(c) THEN Fail("update", 400, "CastError")
               ELSE IF ~ValidUpdate(c) THEN Fail("update", 400, "ValidationError")
               ELSE Reply("update", 200, ToJSON(d))]

\* Task.findByIdAndUpdate(id, body, {new, runValidators}) and the answer the
\* handler gives: the id and the body are cast and the named paths validated
\* before the store is asked; the store then finds and updates the document in
\* one step.
Updating(st, id, b, now) ==
  LET c == CastBody(b)
      hit == id \in DOMAIN st
      moved == c._id # Absent /\ c._id.id # id
      done == ~(id = BadId \/ HasCastError(c) \/ ~ValidUpdate(c)) /\ hit /\ ~moved
      d == ApplyUpdate(st[id], c, now)
  IN [done |-> done,
      store |-> IF done THEN [st EXCEPT ![id] = d] ELSE st,
      resp |-> IF id = BadId \/ HasCastError(c) THEN Fail("update", 400, "CastError")
               ELSE IF ~ValidUpdate(c) THEN Fail("update", 400, "ValidationError")
               ELSE IF ~hit THEN Fail("update", 404, "Task not found")
               ELSE IF moved THEN Fail("update", 400, "ImmutableField")
               ELSE Reply("update", 200, ToJSON(d))]

\* Task.findByIdAndDelete(id) and the answer the handler gives: the store
\* finds and removes the document in one step.
Deleting(st, id) ==
  LET hit == id \in DOMAIN st
  IN [done |-> hit,
      store |-> IF hit THEN Drop(st, id) ELSE st,
      resp |-> IF id = BadId THEN Fail("delete", 500, "CastError")
               ELSE IF ~hit THEN Fail("delete", 404, "Task not found")
               ELSE Reply("delete", 200, << >>)]

\* PUT /api/tasks/:id
updateTask(id, b) ==
  LET r == Updating(store, id, b, clock)
  IN /\ Idle
     /\ req' = [op |-> "update", id |-> id, body |-> b]
     /\ resp' = r.resp
     /\ store' = r.store
     /\ origin' = IF r.done /\ origin.id = id THEN NoOrigin ELSE origin
     /\ UNCHANGED <<deleted, clock, peer, view, form>>

\* DELETE /api/tasks/:id
deleteTask(id) ==
  LET r == Deleting(store, id)
  IN /\ Idle
     /\ req' = [op |-> "delete", id |-> id]
     /\ resp' = r.resp
     /\ store' = r.store
     /\ deleted' = IF r.done THEN deleted \cup {id} ELSE deleted
     /\ origin' = IF r.done /\ origin.id = id THEN NoOrigin ELSE origin
     /\ UNCHANGED <<clock, peer, view, form>>

\* A second client sends an Update or a Delete while the first has none
\* outstanding.
peerCalls(r) ==
  /\ Idle
  /\ peer = NoCall
  /\ peer' = [req |-> r, resp |-> NoResp, had |-> DOMAIN store, after |-> FALSE]
  /\ UNCHANGED <<store, deleted, clock, req, resp, origin, view, form>>

\* The store serves the second client's request: the same model call, in one
\* step of the store, before or after the first client's.
peerServed ==
  /\ peer.req # NoReq
  /\ peer.resp = NoResp
  /\ LET id == peer.req.id
         r == IF peer.req.op = "update"
                THEN Updating(store, id, peer.req.body, clock)
                ELSE Deleting(store, id)
     IN /\ store' = r.store
        /\ deleted' = IF peer.req.op = "delete" /\ r.done
                        THEN deleted \cup {id} ELSE deleted
        /\ origin' = IF r.done /\ origin.id = id THEN NoOrigin ELSE origin
        /\ peer' = [peer EXCEPT !.resp = r.resp, !.after = ~Idle]
  /\ UNCHANGED <<clock, req, resp, view, form>>

\* The second client's response is delivered.
peerSettle ==
  /\ peer.resp # NoResp
  /\ peer' = NoCall
  /\ UNCHANGED <<store, deleted, clock, req, resp, origin, view, form>>

\* The request gets as far as the store: its id and body have been cast and
\* validated.
ReachesStore(r) ==
  CASE r.op = "list" -> TRUE
    [] r.op \in {"get", "delete"} -> r.id # BadId
    [] r.op = "create" ->
         \A i \in DOMAIN r.body.docs : Prepared(r.body.docs[i], clock).ok
    [] r.op = "update" ->
         /\ r.id # BadId
         /\ ~HasCastError(CastBody(r.body))
         /\ ValidUpdate(CastBody(r.body))

\* The model call of a handler throws because the store cannot be reached:
\* the handler's catch block answers, nothing is stored.  req records the
\* error the store raised.
storeError(r, msg) ==
  /\ Idle
  /\ ReachesStore(r)
  /\ req' = [fault |-> msg] @@ r
  /\ resp' = Caught(r.op, msg)
  /\ UNCHANGED <<store, deleted, clock, origin, peer, view, form>>

----------------------------------------------------------------------------
(* The React client: pages/TaskList.js and components/TaskForm.js.  A call  *)
(* is in flight from the moment a page issues it until its response is     *)
(* handled; the server serves the calls in flight in any order and their   *)
(* responses arrive in any order.                                          *)

MaxCalls == 2    \* the calls a page has in flight at a time

Without(cs, i) == SubSeq(cs, 1, i - 1) \o SubSeq(cs, i + 1, Len(cs))
InFlight(cs) == {i \in DOMAIN cs : cs[i].resp = NoResp}
Answered(cs) == {i \in DOMAIN cs : cs[i].resp # NoResp}

\* The server's answer to a call c on store st, and the store it leaves.
Serving(st, us, c, now) ==
  CASE c.op = "list" ->
         {[store |-> st, done |-> FALSE, resp |-> r] : r \in Listing(st)}
    [] c.op = "get" ->
         {[store |-> st, done |-> FALSE, resp |-> Getting(st, c.id)]}
    [] c.op = "create" ->
         LET r == Creating(st, us, One(c.body), now)
         IN IF r.able
              THEN {[store |-> r.store, done |-> r.last # 0, resp |-> r.resp]}
              ELSE {}
    [] c.op = "update" ->
         LET r == Updating(st, c.id, c.body, now)
         IN {[store |-> r.store, done |-> r.done, resp |-> r.resp]}
    [] c.op = "delete" ->
         LET r == Deleting(st, c.id)
         IN {[store |-> r.store, done |-> r.done, resp |-> r.resp]}

\* What a served call leaves of the ids deleted and of the task created last.
DeletedBy(c, done) == IF c.op = "delete" /\ done THEN deleted \cup {c.id} ELSE deleted
OriginBy(c, done) ==
  IF c.op \in {"update", "delete"} /\ done /\ origin.id = c.id THEN NoOrigin ELSE origin

\* The call as a server request.
AsRequest(c) ==
  CASE c.op = "list" -> [op |-> "list"]
    [] c.op \in {"get", "delete"} -> [op |-> c.op, id |-> c.id]
    [] c.op = "create" -> [op |-> "create", body |-> One(c.body)]
    [] c.op = "update" -> [op |-> "update", id |-> c.id, body |-> c.body]

(* pages/TaskList.js *)

\* fetchTasks up to its await: setLoading(true), GET /tasks issued.
fetchTasksStart(v) ==
  [v EXCEPT !.loading = TRUE,
            !.calls = Append(@, Call("list", BadId, EmptyBody))]

\* fetchTasks after its await: setTasks and setError(null), or the catch
\* block; finally setLoading(false).
fetchTasksEnd(v, r) ==
  IF r.success
    THEN [v EXCEPT !.tasks = r.data, !.error = "", !.loading = FALSE]
    ELSE [v EXCEPT !.error = "Failed to fetch tasks", !.loading = FALSE]

\* The tasks TaskList shows: none while it renders "Loading tasks..." or the
\* error.
Displayed(v) ==
  IF v.loading \/ v.error # "" THEN {}
  ELSE {v.tasks[i]._id : i \in DOMAIN v.tasks}

\* useEffect(() => { fetchTasks(); }, [])
mount ==
  /\ ~view.mounted
  /\ view' = fetchTasksStart([view EXCEPT !.mounted = TRUE])
  /\ UNCHANGED <<store, deleted, clock, req, resp, origin, peer, form>>

handleDeleteUnasked(id, ok) ==
  /\ id \in Displayed(view)
  /\ Len(view.calls) < MaxCalls
  /\ view' = [view EXCEPT !.asked = [id |-> id, ok |-> ok],
                          !.calls = Append(@, Call("delete", id, EmptyBody))]
  /\ UNCHANGED <<store, deleted, clock, req, resp, origin, peer, form>>

\* handleDelete(id) up to its await, on the Delete button of a task shown;
\* ok is the user's answer to window.confirm.
handleDelete(id, ok) ==
  /\ id \in Displayed(view)
  /\ ok => Len(view.calls) < MaxCalls
  /\ view' = IF ok
               THEN [view EXCEPT !.asked = [id |-> id, ok |-> TRUE],
                                 !.calls = Append(@, Call("delete", id, EmptyBody))]
               ELSE [view EXCEPT !.asked = [id |-> id, ok |-> FALSE]]
  /\ UNCHANGED <<store, deleted, clock, req, resp, origin, peer, form>>

\* The server serves a call of TaskList.
listServed(i) ==
  /\ i \in InFlight(view.calls)
  /\ \E r \in Serving(store, Used, view.calls[i], clock) :
       /\ store' = r.store
       /\ deleted' = DeletedBy(view.calls[i], r.done)
       /\ origin' = OriginBy(view.calls[i], r.done)
       /\ view' = [view EXCEPT !.calls[i].resp = r.resp]
  /\ UNCHANGED <<clock, req, resp, peer, form>>

\* A call of TaskList does not reach the server.  (A 500 of the server is
\* handled by the same catch blocks.)
listLost(i) ==
  /\ i \in InFlight(view.calls)
  /\ view' = [view EXCEPT !.calls[i].resp = Lost(view.calls[i].op)]
  /\ UNCHANGED <<store, deleted, clock, req, resp, origin, peer, form>>

\* The response of a GET /tasks arrives: fetchTasks resumes.
fetchTasks(i) ==
  /\ i \in Answered(view.calls)
  /\ view.calls[i].op = "list"
  /\ view' = fetchTasksEnd([view EXCEPT !.calls = Without(@, i)], view.calls[i].resp)
  /\ UNCHANGED <<store, deleted, clock, req, resp, origin, peer, form>>

handleDeleteEndOptimistic(v, c) ==
  IF c.resp.success THEN fetchTasksStart(v)
  ELSE [v EXCEPT !.alert = "Failed to delete task",
                 !.tasks = SelectSeq(@, LAMBDA t : t._id # c.id)]

\* handleDelete after its await: fetchTasks() is called and not awaited, or
\* the catch block alerts.
handleDeleteEnd(v, c) ==
  IF c.resp.success THEN fetchTasksStart(v)
  ELSE [v EXCEPT !.alert = "Failed to delete task"]

\* The response of a DELETE /tasks/:id arrives: handleDelete resumes.
deleteAnswered(i) ==
  /\ i \in Answered(view.calls)
  /\ view.calls[i].op = "delete"
  /\ view' = handleDeleteEnd([view EXCEPT !.calls = Without(@, i)], view.calls[i])
  /\ UNCHANGED <<store, deleted, clock, req, resp, origin, peer, form>>

(* components/TaskForm.js *)

\* A value JavaScript treats as false in task.x || '' and task.x ? ... : ''.
Falsy(v) == v.k \in {"absent", "null"} \/ v = EmptyStr

\* s.split('T')[0]: the calendar date of an ISO string.
SplitT(v) == IF v.k = "iso" THEN DateStr(v.day) ELSE v

FormOfRaw(t) ==
  [title |-> t.title, description |-> t.description, status |-> t.status,
   priority |-> t.priority, dueDate |-> t.dueDate]

\* setFormData of fetchTask: the inputs filled from the task of the response.
FormOf(t) ==
  [title |-> t.title,
   description |-> IF Falsy(t.description) THEN EmptyStr ELSE t.description,
   status |-> t.status,
   priority |-> t.priority,
   dueDate |-> IF Falsy(t.dueDate) THEN EmptyStr ELSE SplitT(t.dueDate)]

\* formData as the JSON body of the save call.
BodyOf(fd) == [f \in Fields |-> IF f \in ContentFields THEN fd[f] ELSE Absent]

\* The route /create renders TaskForm: no task is loaded.
openCreate ==
  /\ form.mode = "none"
  /\ form' = [form EXCEPT !.mode = "create"]
  /\ UNCHANGED <<store, deleted, clock, req, resp, origin, peer, view>>

\* The route /edit/:id renders TaskForm with isEdit: useEffect calls
\* fetchTask, which issues GET /tasks/:id.
openEdit(id) ==
  /\ form.mode = "none"
  /\ form' = [form EXCEPT !.mode = "edit", !.id = id,
                          !.calls = Append(@, Call("get", id, EmptyBody))]
  /\ UNCHANGED <<store, deleted, clock, req, resp, origin, peer, view>>

\* fetchTask after its await: setFormData, or the catch block's setError.
fetchTaskEnd(f, r) ==
  IF r.success
    THEN [f EXCEPT !.formData = FormOf(r.data), !.loaded = TRUE, !.touched = FALSE]
    ELSE [f EXCEPT !.error = "Failed to fetch task"]

\* The response of GET /tasks/:id arrives: fetchTask resumes (without effect
\* once the form has been left).
fetchTask(i) ==
  /\ i \in Answered(form.calls)
  /\ form.calls[i].op = "get"
  /\ form' = IF form.left THEN [form EXCEPT !.calls = Without(@, i)]
             ELSE fetchTaskEnd([form EXCEPT !.calls = Without(@, i)], form.calls[i].resp)
  /\ UNCHANGED <<store, deleted, clock, req, resp, origin, peer, view>>

\* handleChange: the user sets input f to v.
handleChange(f, v) ==
  /\ form.mode # "none"
  /\ ~form.left
  /\ form' = [form EXCEPT !.formData[f] = v, !.touched = TRUE]
  /\ UNCHANGED <<store, deleted, clock, req, resp, origin, peer, view>>

\* The save call of the form: PUT /tasks/:id in edit mode, POST /tasks
\* otherwise.
SaveCall(f) ==
  [Call(IF f.mode = "edit" THEN "update" ELSE "create",
        IF f.mode = "edit" THEN f.id ELSE BadId,
        BodyOf(f.formData))
     EXCEPT !.kept = f.loaded /\ ~f.touched]

handleSubmitAnyTime ==
  /\ form.mode # "none"
  /\ ~form.left
  /\ form.formData.title # EmptyStr
  /\ Len(form.calls) < MaxCalls
  /\ form' = [form EXCEPT !.loading = TRUE, !.error = "",
                          !.calls = Append(@, SaveCall(form))]
  /\ UNCHANGED <<store, deleted, clock, req, resp, origin, peer, view>>

\* handleSubmit up to its await.  The submit button is disabled while loading
\* is true, and the browser does not submit while the required title input
\* is empty.
handleSubmit ==
  /\ form.mode # "none"
  /\ ~form.left
  /\ ~form.loading
  /\ form.formData.title # EmptyStr
  /\ Len(form.calls) < MaxCalls
  /\ form' = [form EXCEPT !.loading = TRUE, !.error = "",
                          !.calls = Append(@, SaveCall(form))]
  /\ UNCHANGED <<store, deleted, clock, req, resp, origin, peer, view>>

\* handleSubmit after its await: navigate('/'), or setError with the
\* response's error, 'Failed to save task' when there is none; finally
\* setLoading(false).
handleSubmitEnd(f, r) ==
  IF r.success
    THEN [f EXCEPT !.left = TRUE, !.loading = FALSE]
    ELSE [f EXCEPT !.error = IF r.error # "" THEN r.error ELSE "Failed to save task",
                   !.loading = FALSE]

\* The response of the save call arrives: handleSubmit resumes.
submitAnswered(i) ==
  /\ i \in Answered(form.calls)
  /\ form.calls[i].op \in {"create", "update"}
  /\ form' = handleSubmitEnd([form EXCEPT !.calls = Without(@, i)], form.calls[i].resp)
  /\ UNCHANGED <<store, deleted, clock, req, resp, origin, peer, view>>

\* The server serves a call of TaskForm.
formServed(i) ==
  /\ i \in InFlight(form.calls)
  /\ \E r \in Serving(store, Used, form.calls[i], clock) :
       /\ store' = r.store
       /\ deleted' = DeletedBy(form.calls[i], r.done)
       /\ origin' = OriginBy(form.calls[i], r.done)
       /\ form' = [form EXCEPT !.calls[i].resp = r.resp]
  /\ UNCHANGED <<clock, req, resp, peer, view>>

\* The store cannot be reached while the server serves a call of TaskForm.
formFaulted(i, msg) ==
  /\ i \in InFlight(form.calls)
  /\ ReachesStore(AsRequest(form.calls[i]))
  /\ form' = [form EXCEPT !.calls[i].resp = Caught(form.calls[i].op, msg)]
  /\ UNCHANGED <<store, deleted, clock, req, resp, origin, peer, view>>

\* A call of TaskForm does not reach the server.
formLost(i) ==
  /\ i \in InFlight(form.calls)
  /\ form' = [form EXCEPT !.calls[i].resp = Lost(form.calls[i].op)]
  /\ UNCHANGED <<store, deleted, clock, req, resp, origin, peer, view>>

----------------------------------------------------------------------------
(* The requests the model issues. *)

IdParams == OIDs \cup {BadId}

Titled == [EmptyBody EXCEPT !.title = Str(1, "a", 1, 1)]
Untitled == [EmptyBody EXCEPT !.title = EmptyStr]

\* Bodies that differ in the _id they carry.
PlainBodies ==
  {EmptyBody, Titled, Untitled}
    \cup {[b EXCEPT !._id = OidStr(i)] : b \in {EmptyBody, Titled}, i \in OIDs}

Batches == {Many(<<a, b>>) : a, b \in {Titled, Untitled}}

\* Any interleaving of the five operations on any ids.
Next ==
  \/ Tick
  \/ Settle
  \/ getTasks
  \/ \E id \in IdParams : getTask(id)
  \/ \E b \in PlainBodies : createTask(One(b))
  \/ \E m \in Batches : createTask(m)
  \/ \E id \in IdParams, b \in PlainBodies : updateTask(id, b)
  \/ \E id \in IdParams : deleteTask(id)

Spec == Init /\ [][Next]_vars

\* A createdAt / updatedAt a client may send: an instant the clock has not
\* reached.
Later == MaxClock + 1

\* Bodies that differ in the timestamps they carry.
TimeBodies ==
  {EmptyBody, Titled}
    \cup {[b EXCEPT ![f] = TimeStr(Later)] :
            b \in {EmptyBody, Titled}, f \in {"createdAt", "updatedAt"}}

\* Bodies that carry an _id.
IdBodies == {[EmptyBody EXCEPT !._id = OidStr(i)] : i \in OIDs}

EmptyStore == store = << >>

\* One task at a time, the clock running, bodies with and without timestamps.
NextTime ==
  \/ Tick
  \/ Settle
  \/ getTasks
  \/ \E id \in IdParams : getTask(id)
  \/ EmptyStore /\ \E b \in TimeBodies : createTask(One(b))
  \/ \E id \in IdParams, b \in TimeBodies \cup IdBodies : updateTask(id, b)
  \/ \E id \in IdParams : deleteTask(id)

SpecTime == Init /\ [][NextTime]_vars

\* The values a body may give a content path.
ContentIn(f) ==
  CASE f = "title" -> {Null, EmptyStr, Str(2, "", 0, 0), Str(1, "a", 1, 1),
                       Str(1, "t", TitleMax, 1), Str(0, "t", TitleMax + 1, 0)}
    [] f = "description" -> {Str(1, "d", 1, 1), Str(0, "d", DescMax + 1, 0)}
    [] f = "status" -> {Null, Word("in-progress"), Word("completed"), Word("archived")}
    [] f = "priority" -> {Null, Word("high"), Word("urgent")}
    [] f = "dueDate" -> {DateStr(1), IsoStr(1, 1), EmptyStr, Word("soon")}

\* Bodies that name one content path, or title and one more.
OnePath == UNION {{[EmptyBody EXCEPT ![f] = v] : v \in ContentIn(f)} : f \in ContentFields}
ContentBodies ==
  {EmptyBody} \cup OnePath
    \cup {[b EXCEPT !.title = t] : b \in OnePath, t \in ContentIn("title")}

\* One task at a time, bodies over the content paths.
NextContent ==
  \/ Settle
  \/ getTasks
  \/ \E id \in IdParams : getTask(id)
  \/ EmptyStore /\ \E b \in ContentBodies : createTask(One(b))
  \/ \E id \in IdParams, b \in ContentBodies : updateTask(id, b)
  \/ \E id \in IdParams : deleteTask(id)

SpecContent == Init /\ [][NextContent]_vars

\* Requests that get as far as the store.
StoreRequests ==
  {[op |-> "list"], [op |-> "create", body |-> One(Titled)]}
    \cup {[op |-> o, id |-> i] : o \in {"get", "delete"}, i \in OIDs}
    \cup {[op |-> "update", id |-> i, body |-> b] : i \in OIDs, b \in {EmptyBody, Titled}}

\* Any interleaving of the five operations, the store failing at will.
NextFault ==
  \/ Next
  \/ \E r \in StoreRequests, msg \in StoreErrors : storeError(r, msg)

SpecFault == Init /\ [][NextFault]_vars

\* Update bodies that tell their writers apart.
RaceBodies ==
  {[EmptyBody EXCEPT !.title = Str(0, "b", 1, 0)],
   [EmptyBody EXCEPT !.title = Str(0, "c", 1, 0), !.status = Word("completed")],
   [EmptyBody EXCEPT !.status = Word("in-progress")],
   [EmptyBody EXCEPT !.title = EmptyStr]}

RaceRequests ==
  {[op |-> "update", id |-> i, body |-> b] : i \in IdParams, b \in RaceBodies}
    \cup {[op |-> "delete", id |-> i] : i \in IdParams}

NoPeer == peer = NoCall

\* Two clients: while the second client's request is in flight the first
\* issues one request, and the store serves the two in either order.
NextRace ==
  \/ NoPeer /\ Settle
  \/ NoPeer /\ createTask(One(Titled))
  \/ \E id \in IdParams, b \in RaceBodies : updateTask(id, b)
  \/ \E id \in IdParams : deleteTask(id)
  \/ \E r \in RaceRequests : peerCalls(r)
  \/ peerServed
  \/ peerSettle

SpecRace == Init /\ [][NextRace]_vars

Unmounted == ~view.mounted
Calls == 1..MaxCalls

\* The task list of one browser: tasks are created before the page is
\* opened; the user deletes tasks shown, confirming or not; calls are served
\* or lost, and answered in any order.
NextList ==
  \/ Unmounted /\ Settle
  \/ Unmounted /\ createTask(One(Titled))
  \/ Idle /\ mount
  \/ \E id \in OIDs, ok \in BOOLEAN : handleDelete(id, ok)
  \/ \E i \in Calls : listServed(i)
  \/ \E i \in Calls : listLost(i)
  \/ \E i \in Calls : fetchTasks(i)
  \/ \E i \in Calls : deleteAnswered(i)

SpecList == Init /\ [][NextList]_vars

Unopened == form.mode = "none"

\* The tasks stored before the form is opened: a title alone; a description
\* and a dueDate with a time of day; a description and a dueDate at midnight.
FormTasks ==
  {Titled,
   [Titled EXCEPT !.description = Str(0, "d", 1, 0), !.dueDate = IsoStr(1, 1)],
   [Titled EXCEPT !.description = Str(0, "d", 1, 0), !.dueDate = DateStr(1)]}

\* What the user types: a title, a title of spaces, another status.
FormInputs ==
  {<<"title", Str(0, "b", 1, 0)>>, <<"title", Str(2, "", 0, 0)>>,
   <<"status", Word("completed")>>}

\* The form of one browser, opened once to create a task or to edit the task
\* of an id, the clock running; the user edits inputs and submits; calls are
\* served, fail and are answered in any order.
NextForm ==
  \/ Tick
  \/ Unopened /\ Settle
  \/ Unopened /\ EmptyStore /\ \E b \in FormTasks : createTask(One(b))
  \/ Idle /\ openCreate
  \/ Idle /\ \E id \in IdParams : openEdit(id)
  \/ \E in \in FormInputs : handleChange(in[1], in[2])
  \/ handleSubmit
  \/ \E i \in Calls : formServed(i)
  \/ \E i \in Calls, msg \in StoreErrors : formFaulted(i, msg)
  \/ \E i \in Calls : formLost(i)
  \/ \E i \in Calls : fetchTask(i)
  \/ \E i \in Calls : submitAnswered(i)

SpecForm == Init /\ [][NextForm]_vars

----------------------------------------------------------------------------
(* Properties. *)

\* A step in which a handler serves a request.
Served == Idle /\ req' # NoReq

\* The Get that follows the Create of the task it asks for, nothing having
\* touched that task in between.
GetAfterCreate == req.op = "get" /\ resp.success /\ origin.id = req.id

\* C1, as claimed: Create then Get returns title, description, status,
\* priority and dueDate equal to the candidate's.
C1_GetEqualsCandidate ==
  GetAfterCreate => \A f \in ContentFields : resp.data[f] = origin.body[f]

\* What Get shows of a candidate's path: text without the surrounding white
\* space, an omitted status or priority as its default, a date as the ISO
\* string of its instant ('' as null).
Shown(f, v) ==
  CASE f \in {"title", "description"} ->
         IF v.k = "str" THEN Str(0, IF v.n = 0 THEN "" ELSE v.ch, v.n, 0) ELSE v
    [] f = "status" -> IF v = Absent THEN Word("pending") ELSE v
    [] f = "priority" -> IF v = Absent THEN Word("medium") ELSE v
    [] f = "dueDate" ->
         IF v.k = "date" THEN IsoStr(v.day, 0)
         ELSE IF v.k = "str" THEN Null ELSE v

\* C1, amended: Create then Get returns the candidate's content normalised:
\* title and description trimmed, an omitted status or priority replaced by
\* pending / medium, dueDate as the ISO string of the same instant.
C1_GetShowsNormalisedCandidate ==
  GetAfterCreate => \A f \in ContentFields : resp.data[f] = Shown(f, origin.body[f])

C1_Witness ==
  /\ GetAfterCreate
  /\ origin.body.title # resp.data.title
  /\ origin.body.status = Absent
  /\ resp.data.status = Word("pending")

\* C2, as claimed: once Delete(id) has succeeded, every later Get(id) and
\* Delete(id) answers 404.
C2_DeletedStaysGone ==
  [][(Served /\ req'.op \in {"get", "delete"})
       => (req'.id \in deleted => resp'.status = 404)]_vars

\* C3, as claimed: Get, Update and Delete answer an id that is no valid
\* identifier with the 404 "Task not found" of an id that matches no task.
C3_MalformedIdIsNotFound ==
  (req.op \in {"get", "update", "delete"} /\ resp.op = req.op)
    => (req.id = BadId => resp = Fail(req.op, 404, "Task not found"))

\* C4, as claimed: a request answered with a failure leaves the store as it
\* was; in particular a rejected Create adds no task.
C4_FailureLeavesStore ==
  [][(Served /\ Failed(resp')) => store' = store]_vars

\* C5, as claimed: every stored task has a status among pending,
\* in-progress, completed and a priority among low, medium, high.
C5_StoredEnumsValid ==
  \A id \in DOMAIN store :
    /\ store[id].status \in {Word(w) : w \in StatusEnum}
    /\ store[id].priority \in {Word(w) : w \in PriorityEnum}

\* A single-document Create has been served.
CreatedOne == req.op = "create" /\ ~req.body.array

\* The candidate's title is text whose length without the surrounding white
\* space is 1 to 100; otherwise the title is missing, null, empty or too long.
TitleFits(b) == b.title.k = "str" /\ b.title.n >= 1 /\ b.title.n <= 100

\* The candidate's other paths raise no objection: description at most 500
\* characters, status and priority omitted or in their enumeration, dueDate
\* omitted or a date.
OthersFit(b) ==
  /\ b.description.k = "str" => b.description.n <= 500
  /\ b.status = Absent \/ b.status \in {Word(w) : w \in StatusEnum}
  /\ b.priority = Absent \/ b.priority \in {Word(w) : w \in PriorityEnum}
  /\ b.dueDate.k \in {"absent", "date", "iso"}

\* C6: Create answers 201 when the trimmed title has 1 to 100 characters and
\* the other paths fit, answers 400 whenever the title does not fit, and
\* every stored title has 1 to 100 characters.
C6_TitleLengthDecidesCreate ==
  /\ CreatedOne =>
       LET b == req.body.docs[1] IN
         /\ resp.status \in {201, 400}
         /\ ~TitleFits(b) => resp.status = 400
         /\ (TitleFits(b) /\ OthersFit(b)) => resp.status = 201
  /\ \A id \in DOMAIN store :
       /\ store[id].title.k = "str"
       /\ StrLen(store[id].title) \in 1..100

\* Both boundaries have been seen: a title of 100 characters (padded with
\* white space) has been stored.
C6_Witness ==
  /\ CreatedOne
  /\ resp.status = 201
  /\ req.body.docs[1].title = Str(1, "t", 100, 1)
  /\ StrLen(store[resp.data._id].title) = 100

\* C7: a successful Update leaves every path its body does not name as it
\* was; only updatedAt moves.
C7_UpdateKeepsUnnamed ==
  [][(Served /\ req'.op = "update" /\ resp'.success)
       => \A f \in Fields \ {"updatedAt"} :
            req'.body[f] = Absent => store'[req'.id][f] = store[req'.id][f]]_vars

C7_Witness ==
  /\ req.op = "update"
  /\ resp.success
  /\ req.body.title # Absent
  /\ req.body.status = Absent
  /\ store[req.id].status = Word("completed")
  /\ store[req.id].priority = Word("medium")

\* A step in which Update succeeds.
Updated == Served /\ req'.op = "update" /\ resp'.success

\* C8, as claimed: every successful Update, the empty one included, makes
\* updatedAt strictly greater than it was.
C8_UpdateAdvancesUpdatedAt ==
  [][Updated => store'[req'.id].updatedAt > store[req'.id].updatedAt]_vars

\* C8, amended: every successful Update, the empty one included, sets
\* updatedAt to the time the server reads while serving it, whatever the
\* body says about updatedAt.
C8_UpdateStampsServerTime ==
  [][Updated => store'[req'.id].updatedAt = clock]_vars

\* An empty Update, served after the clock has moved on, has re-stamped the
\* task.
C8_Witness ==
  /\ req.op = "update"
  /\ resp.success
  /\ req.body = EmptyBody
  /\ store[req.id].createdAt < clock
  /\ store[req.id].updatedAt = clock

\* C9, as claimed: every stored task has createdAt <= updatedAt, and the
\* task a Create has just stored has them equal.
C9_CreatedNotAfterUpdated ==
  /\ \A id \in DOMAIN store : store[id].createdAt <= store[id].updatedAt
  /\ (CreatedOne /\ resp.success) =>
       store[resp.data._id].createdAt = store[resp.data._id].updatedAt

\* C10, as claimed: the id of a task that enters the store has never been
\* the id of a task before, a deleted one included.
C10_IdsNeverReused ==
  [][\A id \in DOMAIN store' \ DOMAIN store : id \notin Used]_vars

Listed == req.op = "list" /\ resp.success

\* C12, as claimed, for the task that was created last: every other task
\* was created before it, so it is the first of the List.
C12_LastCreatedListedFirst ==
  (Listed /\ origin.id \in DOMAIN store) => resp.data[1]._id = origin.id

\* C12, amended: a List holds every stored task once, and a task with a
\* later createdAt stands before a task with an earlier one, whatever
\* Updates either has had; tasks of equal createdAt stand in any order.
C12_ListLaterCreatedAtFirst ==
  Listed =>
    /\ resp.count = Len(resp.data)
    /\ {resp.data[i]._id : i \in DOMAIN resp.data} = DOMAIN store
    /\ Len(resp.data) = Cardinality(DOMAIN store)
    /\ \A i, j \in DOMAIN resp.data :
         resp.data[i].createdAt > resp.data[j].createdAt => i < j

\* A List of two tasks in which the older one has been updated after it was
\* created and still stands last.
C12_Witness ==
  /\ Listed
  /\ Len(resp.data) = 2
  /\ resp.data[1].createdAt > resp.data[2].createdAt
  /\ resp.data[2].updatedAt > resp.data[2].createdAt

\* An Update has been served for a well-formed id that matches no task.
UpdateOfMissing == Served /\ req'.op = "update" /\ req'.id \in OIDs \ DOMAIN store

\* Every path the Update body names can be cast and passes its validators.
UpdateBodyFits(b) ==
  /\ b.title = Absent \/ TitleFits(b)
  /\ b.description.k \in {"absent", "null"}
       \/ (b.description.k = "str" /\ b.description.n <= 500)
  /\ b.status \in {Absent, Null} \cup {Word(w) : w \in StatusEnum}
  /\ b.priority \in {Absent, Null} \cup {Word(w) : w \in PriorityEnum}
  /\ b.dueDate.k \in {"absent", "null", "date", "iso"} \/ b.dueDate = EmptyStr

\* C13, as claimed: Update of an id that matches no task answers 404
\* "Task not found" for every body.
C13_MissingIdAlwaysNotFound ==
  [][UpdateOfMissing => resp' = Fail("update", 404, "Task not found")]_vars

\* C13, amended: Update of a well-formed id that matches no task answers
\* 404 when the body passes casting and validation and 400 when it does not
\* (the body is checked before the store is asked), and stores nothing.
C13_MissingIdAfterValidation ==
  [][UpdateOfMissing =>
       /\ resp'.status = IF UpdateBodyFits(req'.body) THEN 404 ELSE 400
       /\ ~resp'.success
       /\ store' = store]_vars

\* An Update of a missing id with a title of 101 characters was answered 400.
C13_Witness ==
  /\ req.op = "update"
  /\ req.id \in OIDs \ DOMAIN store
  /\ req.body.title = Str(0, "t", 101, 0)
  /\ resp.status = 400

\* The candidate an Update amounts to: the stored content overlaid with the
\* paths the body names.
Merged(d, b) ==
  [f \in Fields |->
     IF f \notin ContentFields THEN Absent
     ELSE IF b[f] # Absent THEN b[f] ELSE ToJSON(d)[f]]

\* An Update has been served for a stored task.
UpdateOfStored == Served /\ req'.op = "update" /\ req'.id \in DOMAIN store

\* C14: Update of a stored task succeeds exactly when Create would accept
\* the stored content overlaid with the body, and answers 400 otherwise.
C14_UpdateValidatesLikeCreate ==
  [][UpdateOfStored =>
       /\ resp'.success <=> Prepared(Merged(store[req'.id], req'.body), clock).ok
       /\ resp'.status = IF resp'.success THEN 200 ELSE 400
       /\ ~resp'.success => store' = store]_vars

\* An Update that would leave a stored task with a blank title was refused.
C14_Witness ==
  /\ req.op = "update"
  /\ req.id \in DOMAIN store
  /\ req.body.title = Str(2, "", 0, 0)
  /\ req.body.status = Word("completed")
  /\ resp.status = 400
  /\ store[req.id].status # Word("completed")

\* The request being served met a store failure.
Faulted == ~Idle /\ "fault" \in DOMAIN req

\* C15, as claimed: a store failure is answered with status 500; 400 is kept
\* for input that violates a field constraint.
C15_StoreFailureIs500 == Faulted => resp.status = 500

\* The JSON body of a response.
WireBody(r) == [f \in DOMAIN r \ {"op", "status"} |-> r[f]]

\* C16, as claimed: a result is {ok: true, data} or {ok: false, error, kind}
\* with kind one of ValidationError, NotFound, InternalError.
C16_EnvelopeOkKind ==
  Responded(resp) =>
    LET b == WireBody(resp)
    IN \/ DOMAIN b = {"ok", "data"} /\ b.ok = TRUE
       \/ /\ DOMAIN b = {"ok", "error", "kind"}
          /\ b.ok = FALSE
          /\ b.kind \in {"ValidationError", "NotFound", "InternalError"}

\* C16, amended: a result is {success: true, data} (with count for List) or
\* {success: false, error}; no member names the failure class.
C16_EnvelopeSuccessError ==
  Responded(resp) =>
    LET b == WireBody(resp)
    IN IF b.success
         THEN DOMAIN b = {"success", "data"}
                           \cup (IF resp.op = "list" THEN {"count"} ELSE {})
         ELSE DOMAIN b = {"success", "error"}

\* A Delete that met a store failure has been answered with a failure body.
C16_Witness == Faulted /\ Failed(resp) /\ resp.status = 500 /\ resp.op = "delete"

\* The failure statuses the REST table lists for a route.
FailureStatuses(op) ==
  CASE op = "list" -> {500}
    [] op = "get" -> {404, 500}
    [] op = "create" -> {400}
    [] op = "update" -> {404, 400}
    [] op = "delete" -> {404, 500}

\* C17: a served request has its one response; success is true exactly when
\* the status is 201 (POST) or 200 (the other routes); a failure body is
\* {success: false, error} with a status the REST table lists for the route.
C17_ResponsesFollowRestTable ==
  ~Idle =>
    /\ Responded(resp)
    /\ resp.op = req.op
    /\ resp.success <=> resp.status = (IF resp.op = "create" THEN 201 ELSE 200)
    /\ ~resp.success =>
         /\ DOMAIN WireBody(resp) = {"success", "error"}
         /\ resp.status \in FailureStatuses(resp.op)

\* GET /api/tasks has failed the only way it can.
C17_Witness == req.op = "list" /\ ~resp.success /\ resp.status = 500

\* C20, as claimed: the response to a store failure is the same whatever the
\* message of the store's error.
C20_StoreFailureBodyGeneric ==
  Faulted => \A msg \in StoreErrors : resp = Caught(req.op, msg)

\* Both clients have their responses, for requests on one task that was
\* stored when the second client sent its request.
BothAnswered ==
  /\ ~Idle
  /\ req.op \in {"update", "delete"}
  /\ peer.resp # NoResp
  /\ req.id = peer.req.id
  /\ req.id \in peer.had

\* The body the store applied first and the one it applied last.
AppliedFirst == IF peer.after THEN req.body ELSE peer.req.body
AppliedLast == IF peer.after THEN peer.req.body ELSE req.body

\* C18: two valid Updates of one stored task in flight together both answer
\* 200, and each path holds the value of the Update applied last among those
\* that name it.
C18_LastWriteWins ==
  (/\ BothAnswered
   /\ req.op = "update" /\ peer.req.op = "update"
   /\ UpdateBodyFits(req.body) /\ UpdateBodyFits(peer.req.body))
    => /\ resp.status = 200
       /\ peer.resp.status = 200
       /\ \A f \in ContentFields :
            /\ AppliedLast[f] # Absent => store[req.id][f] = AppliedLast[f]
            /\ (AppliedLast[f] = Absent /\ AppliedFirst[f] # Absent)
                 => store[req.id][f] = AppliedFirst[f]

\* The second client's Update named title and status and was applied first;
\* the first client's named title only: the title is the first client's, the
\* status the second's.
C18_Witness ==
  /\ BothAnswered
  /\ req.op = "update" /\ peer.req.op = "update"
  /\ ~peer.after
  /\ req.body.title = Str(0, "b", 1, 0)
  /\ peer.req.body.status = Word("completed")
  /\ store[req.id].title = Str(0, "b", 1, 0)
  /\ store[req.id].status = Word("completed")

\* C19: of two Deletes of one stored task in flight together one answers 200
\* and the other 404; a valid Update in flight with a Delete answers 200 when
\* the store applies it first and 404 otherwise, the Delete answers 200, and
\* the task is not stored afterwards.
C19_OneAtomicStep ==
  /\ (BothAnswered /\ req.op = "delete" /\ peer.req.op = "delete")
       => /\ {resp.status, peer.resp.status} = {200, 404}
          /\ req.id \notin DOMAIN store
  /\ (BothAnswered /\ req.op = "update" /\ peer.req.op = "delete"
        /\ UpdateBodyFits(req.body))
       => /\ peer.resp.status = 200
          /\ resp.status = IF peer.after THEN 200 ELSE 404
          /\ req.id \notin DOMAIN store
  /\ (BothAnswered /\ req.op = "delete" /\ peer.req.op = "update"
        /\ UpdateBodyFits(peer.req.body))
       => /\ resp.status = 200
          /\ peer.resp.status = IF peer.after THEN 404 ELSE 200
          /\ req.id \notin DOMAIN store

\* The second client's Update was applied after the first client's Delete
\* and was answered 404.
C19_Witness ==
  /\ BothAnswered
  /\ req.op = "delete" /\ peer.req.op = "update"
  /\ UpdateBodyFits(peer.req.body)
  /\ peer.after
  /\ resp.status = 200
  /\ peer.resp.status = 404

\* C21: a successful Create of one task stores status pending when the body
\* omits status and priority medium when it omits priority, and stores a
\* status or priority of the enumeration as the body gives it.
C21_CreateDefaults ==
  (CreatedOne /\ resp.success) =>
    LET b == req.body.docs[1]
        d == store[resp.data._id]
    IN /\ b.status = Absent => d.status = Word("pending")
       /\ b.priority = Absent => d.priority = Word("medium")
       /\ b.status \in {Word(w) : w \in StatusEnum} => d.status = b.status
       /\ b.priority \in {Word(w) : w \in PriorityEnum} => d.priority = b.priority

\* A Create that omitted status and gave priority high stored pending and
\* high.
C21_Witness ==
  /\ CreatedOne
  /\ resp.success
  /\ req.body.docs[1].status = Absent
  /\ req.body.docs[1].priority = Word("high")
  /\ store[resp.data._id].status = Word("pending")
  /\ store[resp.data._id].priority = Word("high")

\* C22: a successful List holds every task stored when it is served exactly
\* once, as the store holds it, and nothing else (so no task that has been
\* deleted and not stored again); it is empty when the store is; count is the
\* length of data.
C22_ListIsTheStore ==
  Listed =>
    /\ resp.count = Len(resp.data)
    /\ \A id \in DOMAIN store :
         Cardinality({i \in DOMAIN resp.data : resp.data[i] = ToJSON(store[id])}) = 1
    /\ \A i \in DOMAIN resp.data :
         /\ resp.data[i]._id \in DOMAIN store
         /\ resp.data[i] = ToJSON(store[resp.data[i]._id])
    /\ store = << >> => resp.data = << >>

\* A List served after a Delete, holding the task that is still stored and
\* not the deleted one.
C22_Witness ==
  /\ Listed
  /\ Len(resp.data) = 1
  /\ deleted # {}
  /\ \A i \in DOMAIN resp.data : resp.data[i]._id \notin deleted

\* C27, as claimed: List and Get leave the store as it is, a successful
\* Update or Delete leaves every task with another id as it is, and a
\* successful Create adds exactly one task and leaves every stored task as it
\* is.
C27_OnlyAddressedTaskChanges ==
  [][Served =>
       /\ req'.op \in {"list", "get"} => store' = store
       /\ (req'.op \in {"update", "delete"} /\ resp'.success) =>
            \A i \in (DOMAIN store \cup DOMAIN store') \ {req'.id} :
              i \in DOMAIN store /\ i \in DOMAIN store' /\ store'[i] = store[i]
       /\ (req'.op = "create" /\ resp'.success) =>
            /\ Cardinality(DOMAIN store' \ DOMAIN store) = 1
            /\ \A i \in DOMAIN store :
                 i \in DOMAIN store' /\ store'[i] = store[i]]_vars

\* The DELETE calls TaskList has issued and not yet handled.
DeleteCalls(v) == {i \in DOMAIN v.calls : v.calls[i].op = "delete"}

\* C23: TaskList issues a DELETE for an id only in the step in which the
\* user confirms the deletion of that id; when the user declines, no call is
\* issued (no DELETE, no GET) and neither the page's state nor the store
\* changes.
C23_DeleteOnlyAfterConfirm ==
  [][/\ Cardinality(DeleteCalls(view')) > Cardinality(DeleteCalls(view)) =>
          /\ view'.asked.ok
          /\ view'.calls = Append(view.calls, Call("delete", view'.asked.id, EmptyBody))
     /\ (view'.asked # view.asked /\ ~view'.asked.ok) =>
          /\ [view' EXCEPT !.asked = view.asked] = view
          /\ store' = store]_vars

\* The user has declined to delete a task that is shown, and no call is in
\* flight.
C23_Witness ==
  /\ view.asked.id \in Displayed(view)
  /\ ~view.asked.ok
  /\ view.calls = << >>

\* The call i of TaskList is a DELETE that failed, and this step handles its
\* response.
FailedDeleteHandled(i) ==
  /\ i \in Answered(view.calls)
  /\ view.calls[i].op = "delete"
  /\ ~view.calls[i].resp.success
  /\ \/ view'.calls = Without(view.calls, i)
     \/ \E c \in {Call("list", BadId, EmptyBody)} :
          view'.calls = Append(Without(view.calls, i), c)

\* C24: handling the response of a failed DELETE leaves tasks, loading and
\* error as they were, issues no call, and alerts the user.
C24_FailedDeleteKeepsList ==
  [][\A i \in DOMAIN view.calls :
       FailedDeleteHandled(i) =>
         /\ view'.tasks = view.tasks
         /\ view'.loading = view.loading
         /\ view'.error = view.error
         /\ view'.calls = Without(view.calls, i)
         /\ view'.alert = "Failed to delete task"]_vars

\* A confirmed DELETE has failed: the alert was shown, the task is still
\* shown, no call is in flight.
C24_Witness ==
  /\ view.alert = "Failed to delete task"
  /\ view.asked.ok
  /\ view.asked.id \in Displayed(view)
  /\ view.calls = << >>

\* The GET /tasks calls TaskList has issued and not yet handled.
FetchCalls(v) == {i \in DOMAIN v.calls : v.calls[i].op = "list"}

\* C26, as claimed: once TaskList has no call in flight, it shows no task
\* that a DELETE it issued has removed, in whatever order the responses of
\* its calls arrived.
C26_DeletedTaskNotShown ==
  (view.mounted /\ view.calls = << >>) => Displayed(view) \cap deleted = {}

\* C28, as claimed: once TaskList is mounted, loading is true exactly while a
\* GET /tasks is in flight, overlapping fetches included.
C28_LoadingIffFetching ==
  view.mounted => (view.loading <=> FetchCalls(view) # {})

\* The failure r is an internal error: the call got no response, the server
\* answered 500, or the store could not be reached.  Every other failure is a
\* validation error or a not-found.
Internal(r) == r.status \in {0, 500} \/ r.error \in StoreErrors

\* msg is what the claim lets the client show for the failure r.
ShownAsClaimed(r, msg) ==
  IF Internal(r) THEN msg # "" /\ msg # r.error ELSE msg = r.error

\* This step handles the failed response of call i of the calls cs, leaving
\* the calls cs2.
FailureHandled(cs, cs2, i) ==
  /\ i \in Answered(cs)
  /\ ~cs[i].resp.success
  /\ cs2 = Without(cs, i)

\* C25, as claimed: when a call of the client fails, the client shows the
\* server's message for a validation error or a not-found, and a message of
\* its own for an internal error: in form.error for loading and for saving
\* the form, in view.error for fetching the list, in the alert for deleting.
C25_FailureMessageByClass ==
  [][/\ \A i \in DOMAIN form.calls :
          (FailureHandled(form.calls, form'.calls, i) /\ ~form.left) =>
            ShownAsClaimed(form.calls[i].resp, form'.error)
     /\ \A i \in DOMAIN view.calls :
          FailureHandled(view.calls, view'.calls, i) =>
            ShownAsClaimed(view.calls[i].resp,
                           IF view.calls[i].op = "list" THEN view'.error
                           ELSE view'.alert)]_vars

\* The save calls TaskForm has issued and not yet handled.
SaveCalls(f) == {i \in DOMAIN f.calls : f.calls[i].op \in {"create", "update"}}

\* C29: a submission issues one call, PUT /tasks/:id with the inputs in edit
\* mode and POST /tasks with the inputs in create mode, while no other save
\* call is in flight, and sets loading; handling its response sets loading to
\* false and either, on success, leaves the form without setting an error,
\* or, on failure, sets an error and stays on the form; the form is left in
\* no other step, and at most one save call is ever in flight.
C29_SubmitOnceOneOutcome ==
  [][/\ Cardinality(SaveCalls(form')) > Cardinality(SaveCalls(form)) =>
          /\ SaveCalls(form) = {}
          /\ \E c \in {form'.calls[Len(form'.calls)]} :
               /\ form'.calls = Append(form.calls, c)
               /\ c.resp = NoResp
               /\ c.body = BodyOf(form.formData)
               /\ form.mode = "edit" => c.op = "update" /\ c.id = form.id
               /\ form.mode = "create" => c.op = "create"
          /\ form'.loading
     /\ \A i \in SaveCalls(form) :
          (i \in Answered(form.calls) /\ form'.calls = Without(form.calls, i)) =>
            /\ ~form'.loading
            /\ form.calls[i].resp.success =>
                 form'.left /\ form'.error = form.error
            /\ ~form.calls[i].resp.success =>
                 ~form'.left /\ form'.error # ""
     /\ (form'.left /\ ~form.left) =>
          \E i \in SaveCalls(form) :
            /\ i \in Answered(form.calls)
            /\ form.calls[i].resp.success
     /\ Cardinality(SaveCalls(form')) <= 1]_vars

\* An edit form was submitted with a new title and the form was left: the
\* task carries the new title, loading is false, no call is in flight.
C29_Witness ==
  /\ form.mode = "edit"
  /\ form.left
  /\ ~form.loading
  /\ form.calls = << >>
  /\ form.id \in DOMAIN store
  /\ store[form.id].title = Str(0, "b", 1, 0)

\* This step serves call i of TaskForm with success.
SaveServed(i) ==
  /\ i \in InFlight(form.calls)
  /\ Len(form'.calls) = Len(form.calls)
  /\ form'.calls[i].resp # NoResp
  /\ form'.calls[i].resp.success

\* Two stored values are the same value, or both are no value (undefined,
\* null or '').
SameValue(a, b) == a = b \/ (Falsy(a) /\ Falsy(b))

\* C30, as claimed: the PUT of an edit form that was loaded from a stored
\* task and submitted with no input changed leaves title, description,
\* status, priority and dueDate of the stored task as they were (a path
\* without a value may change to another way of having none).
C30_UnchangedSubmitKeepsContent ==
  [][\A i \in DOMAIN form.calls :
       (form.calls[i].op = "update" /\ form.calls[i].kept /\ SaveServed(i)) =>
         \A f \in ContentFields :
           SameValue(store'[form.calls[i].id][f], store[form.calls[i].id][f])]_vars

\* C30, amended: that PUT leaves _id, createdAt, title, status and priority
\* of the stored task as they were, keeps a description that had a value and
\* stores '' for one that had none, keeps the calendar day of a dueDate and
\* sets its time of day to midnight UTC, stores null for a dueDate that had
\* no value, and sets updatedAt to the server's time.
C30_UnchangedSubmitKeepsDay ==
  [][\A i \in DOMAIN form.calls :
       (form.calls[i].op = "update" /\ form.calls[i].kept /\ SaveServed(i)) =>
         LET old == store[form.calls[i].id]
             new == store'[form.calls[i].id]
         IN /\ \A f \in {"_id", "createdAt", "title", "status", "priority"} :
                 new[f] = old[f]
            /\ new.description =
                 IF Falsy(old.description) THEN EmptyStr ELSE old.description
            /\ new.dueDate =
                 IF old.dueDate.k = "instant" THEN Instant(old.dueDate.day, 0)
                 ELSE Null
            /\ new.updatedAt = clock]_vars

\* The PUT of an unchanged edit form has been answered 200 after the clock
\* moved on: the task has its description and the day of its dueDate, at
\* midnight, and a later updatedAt.
C30_Witness ==
  \E i \in DOMAIN form.calls :
    /\ form.calls[i].op = "update"
    /\ form.calls[i].kept
    /\ form.calls[i].resp # NoResp
    /\ form.calls[i].resp.success
    /\ store[form.calls[i].id].description = Str(0, "d", 1, 0)
    /\ store[form.calls[i].id].dueDate = Instant(1, 0)
    /\ store[form.calls[i].id].updatedAt > store[form.calls[i].id].createdAt

====
